---- MODULE Spec2Model ----
(***************************************************************************)
(* A model of the open-data MCP server: the queryOpenDatabase tool         *)
(* (src/mcp-server.js), its table renderers, and the per-request HTTP      *)
(* handler (src/api/mcp.js).                                               *)
(*                                                                         *)
(* Strings are sequences of one-character strings, so that replaceAll,     *)
(* join and template literals are computed character by character.        *)
(* JavaScript values are tagged records: Undefined, Null, NaN, Num(n)      *)
(* (integers only) and Str(s).                                             *)
(***************************************************************************)
EXTENDS Integers, Sequences, FiniteSets, TLC

VARIABLES
  \* one queryOpenDatabase tool call (specification Spec)
  pc, args, requests, response, fetched, result,
  \* one call of the two table renderers (specification SpecRender)
  rpc, rColumns, rRows, markdownTable, htmlTable,
  \* the HTTP handler of src/api/mcp.js (specification SpecApi)
  api, nextId

vars == <<pc, args, requests, response, fetched, result,
          rpc, rColumns, rRows, markdownTable, htmlTable, api, nextId>>
toolVars == <<pc, args, requests, response, fetched, result>>
renderVars == <<rpc, rColumns, rRows, markdownTable, htmlTable>>
apiVars == <<api, nextId>>

---------------------------------------------------------------------------
(* JavaScript values and coercions                                         *)

Undefined == [t |-> "undefined"]
Null == [t |-> "null"]
NaN == [t |-> "NaN"]
Num(n) == [t |-> "number", n |-> n]
Str(s) == [t |-> "string", s |-> s]

DigitChars == <<"0", "1", "2", "3", "4", "5", "6", "7", "8", "9">>

RECURSIVE NatToString(_)
NatToString(n) ==
  IF n < 10 THEN <<DigitChars[n + 1]>>
  ELSE NatToString(n \div 10) \o <<DigitChars[(n % 10) + 1]>>

\* Number -> String for an integer, as a template literal or String() does.
IntToString(n) == IF n < 0 THEN <<"-">> \o NatToString(-n) ELSE NatToString(n)

\* String(value)
JsString(v) ==
  CASE v.t = "string" -> v.s
    [] v.t = "number" -> IntToString(v.n)
    [] v.t = "NaN" -> <<"N", "a", "N">>
    [] v.t = "null" -> <<"n", "u", "l", "l">>
    [] v.t = "undefined" -> <<"u", "n", "d", "e", "f", "i", "n", "e", "d">>

\* a ?? b
Coalesce(a, b) == IF a.t \in {"undefined", "null"} THEN b ELSE a

IsDigit(c) == \E d \in 1..10 : DigitChars[d] = c
DigitValue(c) == (CHOOSE d \in 1..10 : DigitChars[d] = c) - 1

RECURSIVE ParseNat(_)
ParseNat(s) ==
  IF s = <<>> THEN 0 ELSE 10 * ParseNat(SubSeq(s, 1, Len(s) - 1)) + DigitValue(s[Len(s)])

\* Number(value): a string of decimal digits is its value, the empty string
\* and null are 0, undefined and the non-numeric strings of the model are NaN.
ToNumber(v) ==
  CASE v.t = "number" -> v
    [] v.t = "NaN" -> NaN
    [] v.t = "null" -> Num(0)
    [] v.t = "undefined" -> NaN
    [] v.t = "string" ->
         IF \A i \in 1..Len(v.s) : IsDigit(v.s[i]) THEN Num(ParseNat(v.s)) ELSE NaN

\* String.prototype.replaceAll with a one-character pattern
RECURSIVE ReplaceAllChar(_, _, _)
ReplaceAllChar(s, c, rep) ==
  IF s = <<>> THEN <<>>
  ELSE (IF Head(s) = c THEN rep ELSE <<Head(s)>>) \o ReplaceAllChar(Tail(s), c, rep)

\* Array.prototype.join over strings
RECURSIVE Join(_, _)
Join(parts, sep) ==
  IF parts = <<>> THEN <<>>
  ELSE IF Len(parts) = 1 THEN parts[1]
  ELSE parts[1] \o sep \o Join(Tail(parts), sep)

\* row[column.key]: a missing property reads as undefined
RowGet(row, key) == IF key \in DOMAIN row THEN row[key] ELSE Undefined

---------------------------------------------------------------------------
(* The renderers                                                           *)

escapeMarkdownCell(value) == ReplaceAllChar(JsString(value), "|", <<"\\", "|">>)

\* mutant of escapeHtml: the ampersand is replaced last
EscapeHtmlAmpLast(value) ==
  ReplaceAllChar(
    ReplaceAllChar(
      ReplaceAllChar(
        ReplaceAllChar(
          ReplaceAllChar(JsString(value), "<", <<"&", "l", "t", ";">>),
          ">", <<"&", "g", "t", ";">>),
        "\"", <<"&", "q", "u", "o", "t", ";">>),
      "'", <<"&", "#", "3", "9", ";">>),
    "&", <<"&", "a", "m", "p", ";">>)

escapeHtml(value) ==
  ReplaceAllChar(
    ReplaceAllChar(
      ReplaceAllChar(
        ReplaceAllChar(
          ReplaceAllChar(JsString(value), "&", <<"&", "a", "m", "p", ";">>),
          "<", <<"&", "l", "t", ";">>),
        ">", <<"&", "g", "t", ";">>),
      "\"", <<"&", "q", "u", "o", "t", ";">>),
    "'", <<"&", "#", "3", "9", ";">>)

\* Intl.NumberFormat("en-US") on an integer: groups of three digits
RECURSIVE GroupDigits(_)
GroupDigits(ds) ==
  IF Len(ds) <= 3 THEN ds
  ELSE GroupDigits(SubSeq(ds, 1, Len(ds) - 3)) \o <<",">> \o SubSeq(ds, Len(ds) - 2, Len(ds))

formatNumber(value) ==
  IF value.t = "number"
  THEN Str(IF value.n < 0 THEN <<"-">> \o GroupDigits(NatToString(-value.n))
           ELSE GroupDigits(NatToString(value.n)))
  ELSE Coalesce(value, Str(<<>>))

CellSep == <<" ", "|", " ">>
MdLine(cells) == <<"|", " ">> \o Join(cells, CellSep) \o <<" ", "|">>

buildMarkdownTable(columns, rows) ==
  LET header == MdLine([i \in 1..Len(columns) |-> escapeMarkdownCell(columns[i].label)])
      divider == MdLine([i \in 1..Len(columns) |->
                           IF columns[i].align = "right" THEN <<"-", "-", "-", ":">>
                           ELSE <<"-", "-", "-">>])
      body == [r \in 1..Len(rows) |->
                 MdLine([i \in 1..Len(columns) |->
                           escapeMarkdownCell(
                             Coalesce(RowGet(rows[r], columns[i].key), Str(<<>>)))])]
  IN Join(<<header, divider>> \o body, <<"\n">>)

\* The markup literals of buildHtmlTable are kept as whole tokens; the text
\* placed between them is a run of single characters.  The HTML string is the
\* concatenation of the tokens.
ThOpen ==
  "<th style=\"padding:10px 12px;border:2px solid #333;background:#4A90E2;color:white;text-align:left;font-weight:bold;\">"
TdOpen(align) ==
  IF align = "right"
  THEN "<td style=\"padding:10px 12px;border:1px solid #666;text-align:right;\">"
  ELSE "<td style=\"padding:10px 12px;border:1px solid #666;text-align:left;\">"
TrOpen(index) ==
  IF index % 2 = 0 THEN "<tr style=\"background:#f9f9f9;\">"
  ELSE "<tr style=\"background:#ffffff;\">"
TableOpen ==
  "<table style=\"border-collapse:collapse;width:100%;font-family:Arial,sans-serif;font-size:14px;border:2px solid #333;\">"

buildHtmlTable(columns, rows) ==
  LET headerRow == Join([i \in 1..Len(columns) |->
                           <<ThOpen>> \o escapeHtml(columns[i].label) \o <<"</th>">>], <<>>)
      cells(r) == Join([i \in 1..Len(columns) |->
                          <<TdOpen(columns[i].align)>>
                          \o escapeHtml(Coalesce(RowGet(rows[r], columns[i].key), Str(<<>>)))
                          \o <<"</td>">>], <<>>)
      bodyRows == Join([r \in 1..Len(rows) |->
                          <<TrOpen(r - 1)>> \o cells(r) \o <<"</tr>">>], <<>>)
  IN <<TableOpen, "<thead><tr>">> \o headerRow \o <<"</tr></thead>", "<tbody>">>
     \o bodyRows \o <<"</tbody>", "</table>">>

\* text.replaceAll("**", ""): a left-to-right scan for non-overlapping matches
RECURSIVE RemoveBold(_)
RemoveBold(text) ==
  IF Len(text) < 2 THEN text
  ELSE IF text[1] = "*" /\ text[2] = "*" THEN RemoveBold(SubSeq(text, 3, Len(text)))
  ELSE <<text[1]>> \o RemoveBold(Tail(text))

stripMarkdownBold(text) == RemoveBold(text)

---------------------------------------------------------------------------
(* The tool's parameter schema and the inputs of the model                 *)

YearMin == 1960
YearMax == 2100
LimitMin == 1
LimitMax == 20
CountryCodeLength == 3
IndicatorCodeMinLength == 3

\* the longest upstream observation list the model enumerates
MaxEntries == 3

FRA == <<"F", "R", "A">>
StarCode == <<"*", "*", "|">>
SP_POP_TOTL == <<"S", "P", ".", "P", "O", "P", ".", "T", "O", "T", "L">>

CountryCodes == {FRA, StarCode}
IndicatorCodes == {SP_POP_TOTL}
Years == {1959, 2018, 2020}
Limits == {0, 1, 2, 20, 50}

ArgSets ==
  [countryCode : CountryCodes, indicatorCode : IndicatorCodes,
   startYear : Years, endYear : Years, limit : Limits]

\* the zod shape of server.tool("queryOpenDatabase", ...)
SchemaAccepts(a) ==
  /\ Len(a.countryCode) = CountryCodeLength
  /\ Len(a.indicatorCode) >= IndicatorCodeMinLength
  /\ a.startYear >= YearMin /\ a.startYear <= YearMax
  /\ a.endYear >= YearMin /\ a.endYear <= YearMax
  /\ a.limit >= LimitMin /\ a.limit <= LimitMax

---------------------------------------------------------------------------
(* Upstream: what the World Bank endpoint may answer                       *)

Obj(date, value, country, indicator) ==
  [t |-> "object", date |-> date, value |-> value, country |-> country,
   indicator |-> indicator]
Label(s) == [t |-> "object", value |-> Str(s)]
EmptyObject == [t |-> "object"]
Arr(elems) == [t |-> "array", elems |-> elems]

\* One element of payload[1]: falsy (null), truthy but no object (5), or an
\* observation object whose date, value, country and indicator may be missing.
Items ==
  { Null, Num(5),
    Obj(Str(<<"2", "0", "2", "0">>), Num(1234567), Label(<<"F", "r">>), Label(<<"P", "o", "p">>)),
    Obj(Str(<<"2", "0", "1", "9">>), Null, Label(<<"F", "r">>), Label(<<"P", "o", "p">>)),
    Obj(Str(<<"2", "0", "1", "8">>), Num(50), Undefined, Undefined),
    EmptyObject,
    Obj(Str(<<"2", "0", "2", "1">>), Str(<<"n", "|", "a">>),
        Label(<<"*", "*", "C", "&", "<">>), [t |-> "object", value |-> Null]) }

EntryLists == UNION {[1..n -> Items] : n \in 0..MaxEntries}

Payloads ==
  {EmptyObject, Null, Arr(<<>>), Arr(<<EmptyObject>>), Arr(<<EmptyObject, EmptyObject>>)}
  \cup {Arr(<<EmptyObject, Arr(es)>>) : es \in EntryLists}

Statuses == {200, 404, 500}
FailureMessages == {<<"fetch failed">>}
ParseMessages == {<<"Unexpected end of JSON input">>}

\* response.ok
Ok(status) == status >= 200 /\ status <= 299

---------------------------------------------------------------------------
(* fetchWorldBankIndicator                                                 *)

Min(a, b) == IF a < b THEN a ELSE b
Max(a, b) == IF a > b THEN a ELSE b

requestedLimit(limit) == Max(1, Min(limit, 20))

\* encodeURIComponent on the characters of the model
EncodeChar(c) ==
  CASE c = "|" -> <<"%", "7", "C">>
    [] c = "<" -> <<"%", "3", "C">>
    [] c = ">" -> <<"%", "3", "E">>
    [] c = "&" -> <<"%", "2", "6">>
    [] c = " " -> <<"%", "2", "0">>
    [] OTHER -> <<c>>

RECURSIVE encodeURIComponent(_)
encodeURIComponent(s) ==
  IF s = <<>> THEN <<>> ELSE EncodeChar(Head(s)) \o encodeURIComponent(Tail(s))

\* The URL; its literal parts are whole tokens.
Endpoint(a) ==
  <<"https://api.worldbank.org/v2/country/">> \o encodeURIComponent(a.countryCode)
  \o <<"/indicator/">> \o encodeURIComponent(a.indicatorCode)
  \o <<"?format=json&date=">> \o IntToString(a.startYear) \o <<":">>
  \o IntToString(a.endYear) \o <<"&per_page=">> \o IntToString(requestedLimit(a.limit))

FetchRequest(a) ==
  [method |-> "GET", url |-> Endpoint(a), accept |-> "application/json"]

\* a property read: undefined on anything that has no such property
Prop(v, f) == IF v.t = "object" /\ f \in DOMAIN v THEN v[f] ELSE Undefined

\* v?.value
OptValue(v) == IF v.t \in {"undefined", "null"} THEN Undefined ELSE Prop(v, "value")

Truthy(v) ==
  ~ \/ v.t \in {"undefined", "null", "NaN"}
    \/ (v.t = "number" /\ v.n = 0)
    \/ (v.t = "string" /\ v.s = <<>>)

\* Array.isArray(payload) && Array.isArray(payload[1]) ? payload[1] : []
Entries(payload) ==
  IF payload.t = "array" /\ Len(payload.elems) >= 2 /\ payload.elems[2].t = "array"
  THEN payload.elems[2].elems
  ELSE <<>>

Keeps(item) == Truthy(item) /\ Prop(item, "value") # Null

\* mutant of FilterThenSlice: truncation before the filter
SliceThenFilter(entries, n) == SelectSeq(SubSeq(entries, 1, Min(n, Len(entries))), Keeps)

\* entries.filter(...).slice(0, requestedLimit)
FilterThenSlice(entries, n) ==
  LET kept == SelectSeq(entries, Keeps) IN SubSeq(kept, 1, Min(n, Len(kept)))

NormalizeRows(payload, a) ==
  LET kept == FilterThenSlice(Entries(payload), requestedLimit(a.limit))
  IN [i \in 1..Len(kept) |->
        [year |-> Prop(kept[i], "date"),
         value |-> Prop(kept[i], "value"),
         country |-> Coalesce(OptValue(Prop(kept[i], "country")), Str(a.countryCode)),
         indicator |-> Coalesce(OptValue(Prop(kept[i], "indicator")), Str(a.indicatorCode))]]

---------------------------------------------------------------------------
(* The queryOpenDatabase handler                                           *)

\* (a, b) => Number(b.year) - Number(a.year); a NaN result compares as 0
Compare(a, b) ==
  LET na == ToNumber(a.year)
      nb == ToNumber(b.year)
  IN IF na.t = "NaN" \/ nb.t = "NaN" THEN 0 ELSE nb.n - na.n

\* Array.prototype.sort is stable: each row goes after the rows that do not
\* sort after it.
RECURSIVE StableSort(_)
StableSort(rows) ==
  IF rows = <<>> THEN <<>>
  ELSE LET front == StableSort(SubSeq(rows, 1, Len(rows) - 1))
           x == rows[Len(rows)]
           k == Cardinality({i \in 1..Len(front) : Compare(front[i], x) <= 0})
       IN SubSeq(front, 1, k) \o <<x>> \o SubSeq(front, k + 1, Len(front))

\* The comparator is a consistent ordering unless a NaN year (equal to
\* everything) sits beside two different finite years.
ConsistentComparator(rows) ==
  \/ \A i \in 1..Len(rows) : ToNumber(rows[i].year).t # "NaN"
  \/ \A i, j \in 1..Len(rows) : Compare(rows[i], rows[j]) = 0

\* The orders [...rows].sort(comparator) may produce.  With an inconsistent
\* comparator the order is implementation-defined: any permutation.
SortOutcomes(rows) ==
  IF ConsistentComparator(rows) THEN {StableSort(rows)}
  ELSE {[i \in 1..Len(rows) |-> rows[p[i]]] : p \in Permutations(1..Len(rows))}

Columns ==
  << [key |-> "Year", label |-> Str(<<"Y", "e", "a", "r">>), align |-> "left"],
     [key |-> "Value", label |-> Str(<<"V", "a", "l", "u", "e">>), align |-> "right"],
     [key |-> "Country", label |-> Str(<<"C", "o", "u", "n", "t", "r", "y">>), align |-> "left"],
     [key |-> "Indicator",
      label |-> Str(<<"I", "n", "d", "i", "c", "a", "t", "o", "r">>), align |-> "left"] >>

TableRows(sortedRows) ==
  [i \in 1..Len(sortedRows) |->
     [Year |-> sortedRows[i].year,
      Value |-> formatNumber(sortedRows[i].value),
      Country |-> sortedRows[i].country,
      Indicator |-> sortedRows[i].indicator]]

\* sortedRows.map(row => Number(row.year)).filter(Number.isFinite), as a set
FiniteYears(sortedRows) ==
  {ToNumber(sortedRows[i].year).n :
     i \in {j \in 1..Len(sortedRows) : ToNumber(sortedRows[j].year).t = "number"}}

SetMin(S) == CHOOSE x \in S : \A y \in S : x <= y
SetMax(S) == CHOOSE x \in S : \A y \in S : x >= y

\* mutant of MinYear: the requested start year, whatever the rows hold
MinYearRequested(sortedRows, a) == a.startYear

MinYear(sortedRows, a) ==
  IF FiniteYears(sortedRows) # {} THEN SetMin(FiniteYears(sortedRows)) ELSE a.startYear

MaxYear(sortedRows, a) ==
  IF FiniteYears(sortedRows) # {} THEN SetMax(FiniteYears(sortedRows)) ELSE a.endYear

TitleText(country, indicator, lo, hi) ==
  <<"*", "*">> \o JsString(country) \o <<" ", "-", " ">> \o JsString(indicator)
  \o <<" ", "(">> \o IntToString(lo) \o <<"-">> \o IntToString(hi) \o <<")", "*", "*">>

\* mutant of Title: no fallback to the requested parameters
TitleAlwaysFromRows(sortedRows, a) ==
  LET first == IF sortedRows = <<>>
               THEN [Country |-> Undefined, Indicator |-> Undefined]
               ELSE TableRows(sortedRows)[1]
  IN TitleText(first.Country, first.Indicator,
               MinYear(sortedRows, a), MaxYear(sortedRows, a))

Title(sortedRows, a) ==
  IF Len(sortedRows) > 0
  THEN TitleText(TableRows(sortedRows)[1].Country, TableRows(sortedRows)[1].Indicator,
                 MinYear(sortedRows, a), MaxYear(sortedRows, a))
  ELSE TitleText(Str(a.countryCode), Str(a.indicatorCode), a.startYear, a.endYear)

SourceName == <<"World Bank Open Data API">>

\* the success return of the handler
SuccessResult(a, sortedRows) ==
  LET tableRows == TableRows(sortedRows)
      md == buildMarkdownTable(Columns, tableRows)
      html == buildHtmlTable(Columns, tableRows)
      title == Title(sortedRows, a)
  IN [kind |-> "success",
      isError |-> FALSE,
      text |-> Join(<< <<"Summary: ">> \o IntToString(Len(tableRows)) \o <<" row(s) returned.">>,
                       <<"Data source: ">> \o SourceName,
                       <<"Endpoint: ">> \o Endpoint(a),
                       <<>>, title, <<>>, md, <<>>, <<"HTML table:">>, html >>, <<"\n">>),
      structuredContent |->
        [source |-> SourceName,
         endpoint |-> Endpoint(a),
         columns |-> [i \in 1..Len(Columns) |-> Columns[i].label],
         rows |-> tableRows,
         rawRows |-> sortedRows,
         markdownTable |-> md,
         htmlTable |-> html,
         widgetType |-> "table",
         widget |-> [type |-> "table", title |-> stripMarkdownBold(title),
                     columns |-> Columns, rows |-> tableRows]]]

\* mutant of CaughtResult: the error leaves the handler
Rethrown(message) == [kind |-> "uncaught", isError |-> FALSE, text |-> message]

\* the catch block
CaughtResult(message) ==
  [kind |-> "error", isError |-> TRUE,
   text |-> <<"Failed to query open database: ">> \o message]

InvalidRangeResult ==
  [kind |-> "error", isError |-> TRUE,
   text |-> <<"Invalid range: startYear must be less than or equal to endYear.">>]

\* The tool registry refuses arguments outside the schema; the handler does
\* not run.
SchemaRejection == [kind |-> "invalid_params"]

NoArgs == [countryCode |-> <<>>, indicatorCode |-> <<>>, startYear |-> 0, endYear |-> 0,
           limit |-> 0]
NoResult == [kind |-> "none"]
\* what the upstream did: the HTTP status, the failure message of a rejected
\* fetch or json(), the parsed body
NoResponse == [status |-> 0, failure |-> <<>>, payload |-> Undefined]

\* what fetchWorldBankIndicator returned to the handler, once it has
NotFetched == [returned |-> FALSE, source |-> <<>>, endpoint |-> <<>>, rows |-> <<>>]
Fetched(payload, a) ==
  [returned |-> TRUE, source |-> SourceName, endpoint |-> Endpoint(a),
   rows |-> NormalizeRows(payload, a)]

ToolIdle ==
  /\ pc = "idle" /\ args = NoArgs /\ requests = <<>> /\ response = NoResponse
  /\ fetched = NotFetched /\ result = NoResult
RenderIdle ==
  /\ rpc = "idle" /\ rColumns = <<>> /\ rRows = <<>> /\ markdownTable = <<>>
  /\ htmlTable = <<>>
ApiIdle == api = <<>> /\ nextId = 1

\* tools/call with arguments the schema refuses
CallRejected(a) ==
  /\ pc = "idle"
  /\ ~SchemaAccepts(a)
  /\ args' = a
  /\ result' = SchemaRejection
  /\ pc' = "done"
  /\ UNCHANGED <<requests, response, fetched>>
  /\ UNCHANGED <<renderVars, apiVars>>

\* mutant of RangeInvalid: the precondition check is missing
RangeGuardOff(a) == FALSE

RangeInvalid(a) == a.startYear > a.endYear

\* the handler's own precondition: startYear > endYear
CallInvalidRange(a) ==
  /\ pc = "idle"
  /\ SchemaAccepts(a)
  /\ RangeInvalid(a)
  /\ args' = a
  /\ result' = InvalidRangeResult
  /\ pc' = "done"
  /\ UNCHANGED <<requests, response, fetched>>
  /\ UNCHANGED <<renderVars, apiVars>>

\* the handler up to await fetch(endpoint, ...)
CallFetch(a) ==
  /\ pc = "idle"
  /\ SchemaAccepts(a)
  /\ ~RangeInvalid(a)
  /\ args' = a
  /\ requests' = Append(requests, FetchRequest(a))
  /\ pc' = "fetch"
  /\ UNCHANGED <<response, fetched, result>>
  /\ UNCHANGED <<renderVars, apiVars>>

\* fetch rejects: the catch block answers
FetchRejects(message) ==
  /\ pc = "fetch"
  /\ response' = [response EXCEPT !.failure = message]
  /\ result' = CaughtResult(message)
  /\ pc' = "done"
  /\ UNCHANGED <<args, requests, fetched>>
  /\ UNCHANGED <<renderVars, apiVars>>

\* mutant of HttpErrorMessage: the status is left out of the message
HttpErrorMessageNoStatus(status) == <<"World Bank API request failed">>

\* new Error(`World Bank API request failed: ${response.status}`).message
HttpErrorMessage(status) == <<"World Bank API request failed: ">> \o IntToString(status)

\* fetch resolves: !response.ok throws, otherwise await response.json()
FetchResponds(status) ==
  /\ pc = "fetch"
  /\ response' = [response EXCEPT !.status = status]
  /\ IF Ok(status)
     THEN pc' = "json" /\ UNCHANGED result
     ELSE pc' = "done" /\ result' = CaughtResult(HttpErrorMessage(status))
  /\ UNCHANGED <<args, requests, fetched>>
  /\ UNCHANGED <<renderVars, apiVars>>

\* response.json() rejects
JsonRejects(message) ==
  /\ pc = "json"
  /\ response' = [response EXCEPT !.failure = message]
  /\ result' = CaughtResult(message)
  /\ pc' = "done"
  /\ UNCHANGED <<args, requests, fetched>>
  /\ UNCHANGED <<renderVars, apiVars>>

\* response.json() resolves: normalize, sort, render, return
JsonResolves(payload) ==
  /\ pc = "json"
  /\ fetched' = Fetched(payload, args)
  /\ \E sortedRows \in SortOutcomes(fetched'.rows) :
       result' = SuccessResult(args, sortedRows)
  /\ response' = [response EXCEPT !.payload = payload]
  /\ pc' = "done"
  /\ UNCHANGED <<args, requests>>
  /\ UNCHANGED <<renderVars, apiVars>>

Init == ToolIdle /\ RenderIdle /\ ApiIdle

Next ==
  \/ \E a \in ArgSets : CallRejected(a)
  \/ \E a \in ArgSets : CallInvalidRange(a)
  \/ \E a \in ArgSets : CallFetch(a)
  \/ \E m \in FailureMessages : FetchRejects(m)
  \/ \E s \in Statuses : FetchResponds(s)
  \/ \E m \in ParseMessages : JsonRejects(m)
  \/ \E p \in Payloads : JsonResolves(p)

Spec == Init /\ [][Next]_vars

---------------------------------------------------------------------------
(* The renderers on their own: any column list, any rows                   *)

\* the longest column list and row list the renderers are given
MaxCols == 2
MaxRows == 2

RenderColumns ==
  {[key |-> k, label |-> Str(<<"Y", "r">>), align |-> "left"] : k \in {"a", "b"}}
  \cup {[key |-> k, label |-> Str(<<"<", "|", "&", ">">>), align |-> "right"] :
          k \in {"a", "b"}}

\* column "a" may be missing from a row; column "b" may be null
RenderRows ==
  LET bs == {Null, Num(1234567), Str(<<"x", "\n", "'">>)}
  IN {[b |-> v] : v \in bs}
     \cup {[a |-> Str(<<"&", "l", "t", ";", "\"", "<", "\\", "|", "|">>), b |-> v] : v \in bs}

ColumnLists == UNION {[1..n -> RenderColumns] : n \in 1..MaxCols}
RowLists == UNION {[1..n -> RenderRows] : n \in 0..MaxRows}

RenderInit ==
  /\ rpc = "input" /\ rColumns \in ColumnLists /\ rRows \in RowLists
  /\ markdownTable = <<>> /\ htmlTable = <<>>

\* buildMarkdownTable(columns, rows) and buildHtmlTable(columns, rows)
Render ==
  /\ rpc = "input"
  /\ markdownTable' = buildMarkdownTable(rColumns, rRows)
  /\ htmlTable' = buildHtmlTable(rColumns, rRows)
  /\ rpc' = "rendered"
  /\ UNCHANGED <<rColumns, rRows>>
  /\ UNCHANGED <<toolVars, apiVars>>

InitRender == ToolIdle /\ RenderInit /\ ApiIdle
NextRender == Render
SpecRender == InitRender /\ [][NextRender]_vars

---------------------------------------------------------------------------
(* The HTTP handler of src/api/mcp.js.  Each request gets its own server   *)
(* and transport; handlers of different requests interleave at their       *)
(* awaits.                                                                 *)

\* the number of HTTP requests the model serves
MaxRequests == 2

JsonRpcError ==
  [jsonrpc |-> "2.0", error |-> [code |-> -32000, message |-> "Internal server error"],
   id |-> "null"]

NoBody == [jsonrpc |-> "none"]
TransportBody == [jsonrpc |-> "2.0", by |-> "transport"]

\* res.status(statusCode).json({jsonrpc, error: {code, message}, id})
writeJsonRpcError(res, statusCode, message) ==
  [res EXCEPT !.statusCode = statusCode,
              !.body = [jsonrpc |-> "2.0", error |-> [code |-> -32000, message |-> message],
                        id |-> "null"],
              !.headersSent = TRUE]

\* mutant of MayWriteError: the headersSent test is missing
WritesAlways(res) == TRUE

\* if (!res.headersSent)
MayWriteError(res) == ~res.headersSent

\* catch (error) { if (!res.headersSent) writeJsonRpcError(...) } and then the
\* first statement of finally: transport.close() is called and awaited
CatchAndFinally(h, failedAt) ==
  [h EXCEPT !.failed = failedAt,
            !.sentAtCatch = h.res.headersSent,
            !.res = IF MayWriteError(h.res) THEN writeJsonRpcError(h.res, 500, "Internal server error") ELSE h.res,
            !.log = h.log \o (IF MayWriteError(h.res) THEN <<"writeJsonRpcError">> ELSE <<>>)
                          \o <<"transport.close">>,
            !.pc = "transport.close"]

\* handler(req, res) up to await server.connect(transport)
Receive ==
  /\ nextId <= MaxRequests
  /\ api' = Append(api, [pc |-> "connect", failed |-> "none", sentAtCatch |-> FALSE,
                         res |-> [headersSent |-> FALSE, statusCode |-> 0, body |-> NoBody],
                         transportClosed |-> FALSE, serverClosed |-> FALSE,
                         log |-> <<"connect">>])
  /\ nextId' = nextId + 1
  /\ UNCHANGED <<toolVars, renderVars>>

\* server.connect resolves: transport.handleRequest(req, res, req.body) is called
ConnectResolves(i) ==
  /\ api[i].pc = "connect"
  /\ api' = [api EXCEPT ![i].pc = "handleRequest",
                        ![i].log = Append(@, "handleRequest")]
  /\ UNCHANGED nextId
  /\ UNCHANGED <<toolVars, renderVars>>

ConnectRejects(i) ==
  /\ api[i].pc = "connect"
  /\ api' = [api EXCEPT ![i] = CatchAndFinally(@, "connect")]
  /\ UNCHANGED nextId
  /\ UNCHANGED <<toolVars, renderVars>>

\* transport.handleRequest resolves: the transport has answered; the try
\* block ends and finally calls transport.close()
HandleResolves(i) ==
  /\ api[i].pc = "handleRequest"
  /\ api' = [api EXCEPT ![i].res = [headersSent |-> TRUE, statusCode |-> 200,
                                     body |-> TransportBody],
                        ![i].log = Append(@, "transport.close"),
                        ![i].pc = "transport.close"]
  /\ UNCHANGED nextId
  /\ UNCHANGED <<toolVars, renderVars>>

\* transport.handleRequest rejects, before or after it started the response
HandleRejects(i, sent) ==
  /\ api[i].pc = "handleRequest"
  /\ api' = [api EXCEPT ![i] =
               CatchAndFinally(
                 [@ EXCEPT !.res = IF sent
                                   THEN [headersSent |-> TRUE, statusCode |-> 200,
                                         body |-> TransportBody]
                                   ELSE @],
                 "handleRequest")]
  /\ UNCHANGED nextId
  /\ UNCHANGED <<toolVars, renderVars>>

\* await transport.close() resolves: server.close() is called
TransportCloses(i) ==
  /\ api[i].pc = "transport.close"
  /\ api' = [api EXCEPT ![i].transportClosed = TRUE,
                        ![i].log = Append(@, "server.close"),
                        ![i].pc = "server.close"]
  /\ UNCHANGED nextId
  /\ UNCHANGED <<toolVars, renderVars>>

\* await server.close() resolves: the handler returns
ServerCloses(i) ==
  /\ api[i].pc = "server.close"
  /\ api' = [api EXCEPT ![i].serverClosed = TRUE, ![i].pc = "done"]
  /\ UNCHANGED nextId
  /\ UNCHANGED <<toolVars, renderVars>>

InitApi == ToolIdle /\ RenderIdle /\ ApiIdle
NextApi ==
  \/ Receive
  \/ \E i \in 1..Len(api) : ConnectResolves(i)
  \/ \E i \in 1..Len(api) : ConnectRejects(i)
  \/ \E i \in 1..Len(api) : HandleResolves(i)
  \/ \E i \in 1..Len(api) : \E sent \in BOOLEAN : HandleRejects(i, sent)
  \/ \E i \in 1..Len(api) : TransportCloses(i)
  \/ \E i \in 1..Len(api) : ServerCloses(i)
SpecApi == InitApi /\ [][NextApi]_vars

---------------------------------------------------------------------------
(* Helpers of the properties                                               *)

\* the pieces of s between the occurrences of sep
RECURSIVE Split(_, _)
Split(s, sep) ==
  LET at == {i \in 1..Len(s) : s[i] = sep}
  IN IF at = {} THEN <<s>>
     ELSE LET i == CHOOSE j \in at : \A k \in at : j <= k
          IN <<SubSeq(s, 1, i - 1)>> \o Split(SubSeq(s, i + 1, Len(s)), sep)

Bold(s) == <<"*", "*">> \o s \o <<"*", "*">>
HasStar(s) == \E i \in 1..Len(s) : s[i] = "*"
HasDoubleStar(s) == \E i \in 1..(Len(s) - 1) : s[i] = "*" /\ s[i + 1] = "*"

PlainTitle(country, indicator, lo, hi) ==
  country \o <<" ", "-", " ">> \o indicator \o <<" ", "(">> \o lo \o <<"-">> \o hi \o <<")">>

\* the title line of the text block: its fifth line
TitleLine == Split(result.text, "\n")[5]

Succeeded == pc = "done" /\ result.kind = "success"
HandlerRan == pc = "done" /\ SchemaAccepts(args)

---------------------------------------------------------------------------
(* Properties of the tool call (specification Spec)                        *)

\* C1: whenever the handler is invoked with startYear > endYear, it returns an
\* error result (isError true, with the validation text, no structured
\* payload), and no outbound HTTP request is issued at any point of a call
\* with startYear > endYear.
C1_InvalidRangeFailsFast ==
  (args.startYear > args.endYear) =>
    /\ requests = <<>>
    /\ pc \in {"idle", "done"}
    /\ HandlerRan =>
         /\ result.kind = "error" /\ result.isError = TRUE
         /\ result.text =
              <<"Invalid range: startYear must be less than or equal to endYear.">>
         /\ "structuredContent" \notin DOMAIN result

C1_Witness == HandlerRan /\ args.startYear > args.endYear

\* C2: a call with schema-valid parameters and startYear <= endYear is never
\* left with an uncaught failure: once an upstream outcome has arrived the
\* call is finished or waiting for the body, and a finished call holds either
\* a success result with at most limit rows or an error result with isError.
C2_AlwaysStructuredResult ==
  (pc # "idle" /\ SchemaAccepts(args) /\ args.startYear <= args.endYear) =>
    /\ pc \in {"fetch", "json", "done"}
    /\ pc = "done" =>
         \/ /\ result.kind = "success" /\ result.isError = FALSE
            /\ Len(result.structuredContent.rows) <= args.limit
            /\ Len(result.structuredContent.rawRows) <= args.limit
         \/ /\ result.kind = "error" /\ result.isError = TRUE

C2_Witness ==
  /\ Succeeded
  /\ Len(result.structuredContent.rows) = args.limit
  /\ Len(Entries(response.payload)) > args.limit

\* C3 (as claimed): a call whose limit is outside [1,20], all else valid, is not
\* rejected: it issues the request of the call with the clamped limit
\* (per_page 20 for a limit above 20, 1 for a limit below 1).
C3_OutOfRangeLimitClamped ==
  (/\ pc # "idle"
   /\ (args.limit < 1 \/ args.limit > 20)
   /\ SchemaAccepts([args EXCEPT !.limit = 1])
   /\ args.startYear <= args.endYear) =>
    /\ result.kind # "invalid_params"
    /\ requests = <<FetchRequest([args EXCEPT !.limit = IF args.limit > 20 THEN 20 ELSE 1])>>

\* which observations the claim keeps: truthy, with a value that is not null
C4_Kept(o) ==
  /\ o \notin {Null, Undefined, NaN, Num(0), Str(<<>>)}
  /\ ("value" \in DOMAIN o) => o.value.t # "null"
C4_Field(o, f) == IF f \in DOMAIN o THEN o[f] ELSE Undefined
C4_Label(o, f, code) ==
  IF f \in DOMAIN o /\ o[f].t = "object" /\ "value" \in DOMAIN o[f] /\ o[f].value.t # "null"
  THEN o[f].value ELSE Str(code)

\* C4: the rows fetchWorldBankIndicator returns are the first min(N, k) of
\* the k kept observations (truthy, value not null), in upstream order, N the
\* clamped limit: row j is the projection of the j-th kept observation, and no
\* row has a null value.
C4_NormalizedRows ==
  fetched.returned =>
    LET obs == Entries(response.payload)
        keptAt == {i \in 1..Len(obs) : C4_Kept(obs[i])}
        N == IF args.limit < 1 THEN 1 ELSE IF args.limit > 20 THEN 20 ELSE args.limit
        nth(j) == CHOOSE i \in keptAt : Cardinality({m \in keptAt : m <= i}) = j
    IN /\ Len(fetched.rows) = (IF N < Cardinality(keptAt) THEN N ELSE Cardinality(keptAt))
       /\ \A j \in 1..Len(fetched.rows) :
            /\ fetched.rows[j].value.t # "null"
            /\ fetched.rows[j].year = C4_Field(obs[nth(j)], "date")
            /\ fetched.rows[j].value = C4_Field(obs[nth(j)], "value")
            /\ fetched.rows[j].country = C4_Label(obs[nth(j)], "country", args.countryCode)
            /\ fetched.rows[j].indicator =
                 C4_Label(obs[nth(j)], "indicator", args.indicatorCode)

\* a null-valued observation ahead of a kept one, and more kept ones than N
C4_Witness ==
  /\ fetched.returned
  /\ Len(fetched.rows) = args.limit
  /\ LET obs == Entries(response.payload)
     IN /\ Cardinality({i \in 1..Len(obs) : C4_Kept(obs[i])}) > args.limit
        /\ \E i \in 1..args.limit : obs[i].t = "object" /\ ~C4_Kept(obs[i])

C5_Mismatch(p) ==
  \/ p.t # "array"
  \/ Len(p.elems) < 2
  \/ p.elems[2].t # "array"

C5_Fallback ==
  PlainTitle(args.countryCode, args.indicatorCode,
             IntToString(args.startYear), IntToString(args.endYear))

\* C5: when the 2xx body is not an array, or its second element is missing or
\* not an array, no row is normalized and the call returns a success result
\* (no isError) with an empty table (header and divider only, empty tbody)
\* whose title is the fallback "<countryCode> - <indicatorCode>
\* (<startYear>-<endYear>)" between the bold markers; the widget title is that
\* string itself whenever it holds no asterisk.
C5_MalformedPayloadEmptySuccess ==
  (pc = "done" /\ response.payload # Undefined /\ C5_Mismatch(response.payload)) =>
    /\ fetched.returned /\ fetched.rows = <<>>
    /\ result.kind = "success" /\ result.isError = FALSE
    /\ result.structuredContent.rows = <<>>
    /\ result.structuredContent.rawRows = <<>>
    /\ result.structuredContent.widget.rows = <<>>
    /\ Len(Split(result.structuredContent.markdownTable, "\n")) = 2
    /\ result.structuredContent.htmlTable[Len(result.structuredContent.htmlTable) - 2]
         = "<tbody>"
    /\ TitleLine = Bold(C5_Fallback)
    /\ ~HasStar(C5_Fallback) => result.structuredContent.widget.title = C5_Fallback

C5_Witness ==
  /\ Succeeded
  /\ response.payload.t = "array" /\ Len(response.payload.elems) = 1
  /\ args.countryCode = FRA /\ args.startYear = 2018 /\ args.endYear = 2020

\* C6: after a non-2xx answer to the single GET the call returns an error
\* result whose message ends with that status code; after a rejected fetch or
\* json() it returns an error result whose message ends with the failure's
\* message; in both cases fetchWorldBankIndicator returned no rows and the
\* result has no structured payload.
C6_UpstreamFailureIsError ==
  (pc = "done" /\ (response.failure # <<>> \/ (response.status # 0 /\ ~Ok(response.status)))) =>
    /\ Len(requests) = 1 /\ requests[1].method = "GET"
    /\ result.kind = "error" /\ result.isError = TRUE
    /\ "structuredContent" \notin DOMAIN result
    /\ ~fetched.returned /\ fetched.rows = <<>>
    /\ response.failure # <<>> =>
         result.text = <<"Failed to query open database: ">> \o response.failure
    /\ response.failure = <<>> =>
         result.text = <<"Failed to query open database: ",
                         "World Bank API request failed: ">> \o IntToString(response.status)

C6_Witness == pc = "done" /\ response.status = 404 /\ result.isError = TRUE

C9_Rows == result.structuredContent.rawRows
C9_YearValues == {ToNumber(C9_Rows[i].year) : i \in 1..Len(C9_Rows)}
C9_Finite == {y.n : y \in {v \in C9_YearValues : v.t = "number"}}
C9_First == result.structuredContent.rows[1]

\* C9 (as claimed): with at least one row the title is built from the first
\* row's labels and from the minimum and maximum of the years present among
\* the returned rows, never from the requested years.
C9_TitleFromActualYears ==
  (Succeeded /\ Len(C9_Rows) >= 1) =>
    \E lo, hi \in C9_YearValues :
      /\ \A y \in C9_Finite : lo.t = "number" /\ hi.t = "number" /\ lo.n <= y /\ y <= hi.n
      /\ TitleLine = Bold(PlainTitle(JsString(C9_First.Country), JsString(C9_First.Indicator),
                                     JsString(lo), JsString(hi)))

C9_Content ==
  PlainTitle(JsString(C9_First.Country), JsString(C9_First.Indicator),
             IntToString(IF C9_Finite # {} THEN SetMin(C9_Finite) ELSE args.startYear),
             IntToString(IF C9_Finite # {} THEN SetMax(C9_Finite) ELSE args.endYear))

\* C9 (amended): with at least one row the title is "<Country> - <Indicator>
\* (<minYear>-<maxYear>)" between bold markers, from the first row (after the
\* sort) and the minimum and maximum of the row years that convert to finite
\* numbers, or the requested startYear and endYear when no row has such a year;
\* the widget title is the title with every "**" removed: it holds no "**",
\* and is the unmarked string when that string holds no asterisk.
C9_TitleFromFiniteYears ==
  (Succeeded /\ Len(C9_Rows) >= 1) =>
    /\ TitleLine = Bold(C9_Content)
    /\ ~HasDoubleStar(result.structuredContent.widget.title)
    /\ ~HasStar(C9_Content) => result.structuredContent.widget.title = C9_Content

\* rows whose years are not the requested ones
C9_Witness ==
  /\ Succeeded /\ Len(C9_Rows) >= 2
  /\ C9_Finite # {}
  /\ SetMax(C9_Finite) # args.endYear
  /\ SetMin(C9_Finite) # args.startYear
  /\ SetMin(C9_Finite) # SetMax(C9_Finite)

---------------------------------------------------------------------------
(* Properties of the renderers (specification SpecRender)                  *)

\* the value a cell shows: row[column.key], or the empty string when missing
CellValue(row, key) ==
  IF key \in DOMAIN row /\ row[key].t \notin {"undefined", "null"} THEN row[key]
  ELSE Str(<<>>)

HtmlEntities ==
  << [text |-> <<"&", "a", "m", "p", ";">>, char |-> "&"],
     [text |-> <<"&", "l", "t", ";">>, char |-> "<"],
     [text |-> <<"&", "g", "t", ";">>, char |-> ">"],
     [text |-> <<"&", "q", "u", "o", "t", ";">>, char |-> "\""],
     [text |-> <<"&", "#", "3", "9", ";">>, char |-> "'"] >>

StartsWith(s, prefix) == Len(s) >= Len(prefix) /\ SubSeq(s, 1, Len(prefix)) = prefix

\* One pass of entity decoding.  A raw <, >, " or ', and an & that begins none
\* of the five entities, decode to the token "#raw#", which no text holds.
RECURSIVE HtmlDecode(_)
HtmlDecode(s) ==
  IF s = <<>> THEN <<>>
  ELSE IF Head(s) \in {"<", ">", "\"", "'"} THEN <<"#raw#">>
  ELSE IF Head(s) = "&"
       THEN IF \E e \in 1..Len(HtmlEntities) : StartsWith(s, HtmlEntities[e].text)
            THEN LET e == CHOOSE x \in 1..Len(HtmlEntities) : StartsWith(s, HtmlEntities[x].text)
                 IN <<HtmlEntities[e].char>>
                    \o HtmlDecode(SubSeq(s, Len(HtmlEntities[e].text) + 1, Len(s)))
            ELSE <<"#raw#">>
  ELSE <<Head(s)>> \o HtmlDecode(Tail(s))

HtmlOpenTokens == {ThOpen, TdOpen("left"), TdOpen("right")}
HtmlCloseTokens == {"</th>", "</td>"}

\* the texts between each <th>/<td> open tag and the close tag after it
HtmlCellTexts(html) ==
  LET opens == {i \in 1..Len(html) : html[i] \in HtmlOpenTokens}
      nth(k) == CHOOSE i \in opens : Cardinality({m \in opens : m <= i}) = k
      close(i) == CHOOSE j \in (i + 1)..Len(html) :
                    /\ html[j] \in HtmlCloseTokens
                    /\ \A m \in (i + 1)..(j - 1) : html[m] \notin HtmlCloseTokens
  IN [k \in 1..Cardinality(opens) |-> SubSeq(html, nth(k) + 1, close(nth(k)) - 1)]

\* C7: in the HTML table there is one <th> per column and one <td> per column
\* and row, and the text of each holds no raw <, >, " or ', holds & only as the
\* start of one of the five entities, and decodes in one pass to exactly the
\* label or cell value: every special character was replaced once, and no
\* ampersand of an entity was escaped again.
C7_HtmlEscaped ==
  rpc = "rendered" =>
    LET texts == HtmlCellTexts(htmlTable)
        n == Len(rColumns)
    IN /\ Len(texts) = n * (1 + Len(rRows))
       /\ \A k \in 1..n : HtmlDecode(texts[k]) = JsString(rColumns[k].label)
       /\ \A r \in 1..Len(rRows) : \A k \in 1..n :
            HtmlDecode(texts[n * r + k]) = JsString(CellValue(rRows[r], rColumns[k].key))

\* a value that holds an entity-like text and raw special characters
C7_Witness ==
  /\ rpc = "rendered"
  /\ \E r \in 1..Len(rRows) : \E k \in 1..Len(rColumns) :
       /\ rColumns[k].key = "a" /\ "a" \in DOMAIN rRows[r]
       /\ rColumns[k].label = Str(<<"<", "|", "&", ">">>)

\* a | of a Markdown line that no backslash precedes: a cell boundary
MdBoundaries(line) == {i \in 1..Len(line) : line[i] = "|" /\ (i = 1 \/ line[i - 1] # "\\")}

\* the cells of a line: the texts between consecutive boundaries, without the
\* space on each side
MdCells(line) ==
  LET bs == MdBoundaries(line)
      nth(k) == CHOOSE i \in bs : Cardinality({m \in bs : m <= i}) = k
  IN [k \in 1..(Cardinality(bs) - 1) |-> SubSeq(line, nth(k) + 2, nth(k + 1) - 2)]

MdEscaped(text) == ReplaceAllChar(text, "|", <<"\\", "|">>)

\* C8 (as claimed): the Markdown table has 2 + number of records lines, each
\* with exactly one cell per column; header cells are the labels and body
\* cells the values (empty when missing) with every | written \|.
C8_MarkdownShape ==
  rpc = "rendered" =>
    LET lines == Split(markdownTable, "\n")
        n == Len(rColumns)
    IN /\ Len(lines) = 2 + Len(rRows)
       /\ \A l \in 1..Len(lines) : Len(MdCells(lines[l])) = n
       /\ \A k \in 1..n : MdCells(lines[1])[k] = MdEscaped(JsString(rColumns[k].label))
       /\ \A r \in 1..Len(rRows) : \A k \in 1..n :
            MdCells(lines[2 + r])[k]
              = MdEscaped(JsString(CellValue(rRows[r], rColumns[k].key)))

HasLineBreak(v) == v.t = "string" /\ \E i \in 1..Len(v.s) : v.s[i] = "\n"

\* The same shape, for the inputs in which no label and no shown value holds a
\* line break.
C8_ShapeWithoutLineBreaks ==
  (/\ \A k \in 1..Len(rColumns) : ~HasLineBreak(rColumns[k].label)
   /\ \A r \in 1..Len(rRows) : \A k \in 1..Len(rColumns) :
        ~HasLineBreak(CellValue(rRows[r], rColumns[k].key)))
  => C8_MarkdownShape

C8_WitnessWithoutLineBreaks ==
  /\ rpc = "rendered" /\ Len(rRows) = MaxRows
  /\ \A k \in 1..Len(rColumns) : ~HasLineBreak(rColumns[k].label)
  /\ \A r \in 1..Len(rRows) : \A k \in 1..Len(rColumns) :
       ~HasLineBreak(CellValue(rRows[r], rColumns[k].key))
  /\ \E r \in 1..Len(rRows) : \E k \in 1..Len(rColumns) :
       rColumns[k].key = "a" /\ "a" \in DOMAIN rRows[r]

---------------------------------------------------------------------------
(* Properties of the HTTP handler (specification SpecApi)                  *)

Occurrences(log, e) == {i \in 1..Len(log) : log[i] = e}

====
